---- MODULE Spec2Model ----
(***************************************************************************)
(* Model of scripts/fetch_supertonic_assets.py (the fetch tool) and        *)
(* scripts/build_supertonic_release.py (the build tool).                   *)
(*                                                                         *)
(* A file name is a sequence of glyphs (<<"tts", ".json">>), a path is a   *)
(* sequence of file names, and the file system is a function from the      *)
(* paths of the files that exist to what they hold:                        *)
(*   "partial"  an incomplete body (a file opened for writing whose        *)
(*              writer has not finished)                                   *)
(*   "hf"       a complete body served by the per-file host                *)
(*   "arc"      a complete body unpacked from a release archive            *)
(***************************************************************************)
EXTENDS Naturals, Sequences, FiniteSets, TLC

\* Transport, HTTP-status, read, extraction and archive-write failures that
\* may happen over the runs of a behaviour.
MaxFaults == 1
\* Invocations of a tool in a row on the same directories.
MaxRuns == 2

VARIABLES
    tool,       \* "fetch" | "build": which script is run
    args,       \* the command line and environment of the current run
    pc,         \* position of the current run
    strategy,   \* fetch tool: the strategies main has started in this run, in order
    fs,         \* the file system: existing path -> content
    tmpExists,  \* the scratch directory of try_download_release_and_extract exists
    dl,         \* the arguments of the download_url / download_file call in progress
    idx,        \* index of the loop in progress (manifest entry or archive member)
    requests,   \* urlopen calls of the current run
    log,        \* the fetches of the current run, in order: [path, res]
    failed,     \* build tool: the list `failed` of main
    output,     \* build tool: the output archive, [state, members]
    exit,       \* <<code>> once the current run has exited, <<>> while it runs
    run,        \* number of the current run
    faults,     \* failures injected so far
    prev        \* the exit of the previous run and the files this run started from

vars == <<tool, args, pc, strategy, fs, tmpExists, dl, idx, requests, log, failed,
          output, exit, run, faults, prev>>

Running == <<>>

\* the process has exited with this code
Exited(code) == pc = "done" /\ exit = <<code>>

-----------------------------------------------------------------------------
(* Paths and the file system *)

DEST == <<<<"dest">>>>
TMP  == <<<<"tmp">>>>
WORK == <<<<"work">>>>

\* os.path.join(dir, name) for one more path component
Join(dir, name) == Append(dir, name)

\* os.path.join(dir, rel) for a relative path of several components
JoinAll(dir, rel) == dir \o rel

\* dest_path + ".part" / dest + ".tmp"
WithSuffix(p, sfx) == [p EXCEPT ![Len(p)] = Append(@, sfx)]

Exists(f, p) == p \in DOMAIN f

FsWrite(f, p, c) == [q \in DOMAIN f \cup {p} |-> IF q = p THEN c ELSE f[q]]

FsRemove(f, p) == [q \in DOMAIN f \ {p} |-> f[q]]

IsUnder(p, root) == Len(p) >= Len(root) /\ SubSeq(p, 1, Len(root)) = root

\* shutil.rmtree(root): every file below root goes
RmTree(f, root) == [q \in {r \in DOMAIN f : ~IsUnder(r, root)} |-> f[q]]

\* os.replace(src, dst)
FsReplace(f, src, dst) == FsRemove(FsWrite(f, dst, f[src]), src)

EmptyFs == [q \in {} |-> "partial"]

SeqToSet(s) == {s[i] : i \in 1..Len(s)}

-----------------------------------------------------------------------------
(* The manifests *)

REQUIRED_ONNX ==
    << <<"duration_predictor", ".onnx">>, <<"text_encoder", ".onnx">>,
       <<"vector_estimator", ".onnx">>, <<"vocoder", ".onnx">> >>

REQUIRED_JSON == << <<"tts", ".json">>, <<"unicode_indexer", ".json">> >>

VOICE_STYLES_DIRNAME == <<"voice_styles">>

ONNX_DIRNAME == <<"onnx">>

default_styles ==
    << <<"M1">>, <<"M2">>, <<"M3">>, <<"M4">>, <<"M5">>,
       <<"F1">>, <<"F2">>, <<"F3">>, <<"F4">>, <<"F5">> >>

\* f'{style}.json'
StyleFile(style) == Append(style, ".json")

\* build tool
ONNX_FILES ==
    << <<ONNX_DIRNAME, <<"text_encoder", ".onnx">>>>,
       <<ONNX_DIRNAME, <<"duration_predictor", ".onnx">>>>,
       <<ONNX_DIRNAME, <<"vector_estimator", ".onnx">>>>,
       <<ONNX_DIRNAME, <<"vocoder", ".onnx">>>>,
       <<ONNX_DIRNAME, <<"unicode_indexer", ".json">>>>,
       <<ONNX_DIRNAME, <<"tts", ".json">>>> >>

VOICE_STYLES ==
    [i \in 1..Len(default_styles) |->
        <<VOICE_STYLES_DIRNAME, StyleFile(default_styles[i])>>]

ALL_FILES == ONNX_FILES \o VOICE_STYLES

-----------------------------------------------------------------------------
(* --style: a string of glyphs, split at "," and stripped of blanks *)

RECURSIVE Split(_, _)
\* s.split(sep): the fields of s between the separators, empty ones included
Split(s, sep) ==
    IF \A i \in 1..Len(s) : s[i] # sep
    THEN <<s>>
    ELSE LET k == CHOOSE i \in 1..Len(s) :
                      s[i] = sep /\ \A j \in 1..(i - 1) : s[j] # sep
         IN  <<SubSeq(s, 1, k - 1)>> \o Split(SubSeq(s, k + 1, Len(s)), sep)

RECURSIVE Strip(_)
\* s.strip(): leading and trailing blanks removed
Strip(s) ==
    IF s = <<>> THEN s
    ELSE IF Head(s) = " " THEN Strip(Tail(s))
    ELSE IF s[Len(s)] = " " THEN Strip(SubSeq(s, 1, Len(s) - 1))
    ELSE s

\* [s.strip() for s in styles.split(',') if s.strip()], or default_styles
Requested(style) ==
    IF style.given
    THEN LET fields == Split(style.text, ",")
             keep == SelectSeq(fields, LAMBDA x : Strip(x) # <<>>)
         IN  [i \in 1..Len(keep) |-> Strip(keep[i])]
    ELSE default_styles

NoStyle == [given |-> FALSE, text |-> <<>>]

\* --style absent, and --style " M1,,F3 "
StyleArgs ==
    { NoStyle,
      [given |-> TRUE, text |-> <<" ", "M1", ",", ",", "F3", " ">>] }

-----------------------------------------------------------------------------
(* URLs and release archives *)

\* url.split('?')[0]
UrlPath(url) == Split(url, "?")[1]

\* os.path.basename(path)
Basename(path) == LET parts == Split(path, "/") IN parts[Len(parts)]

\* os.path.basename(url.split('?')[0]) or 'release.zip'
ArchiveName(url) ==
    IF Basename(UrlPath(url)) = <<>>
    THEN <<"release", ".zip">>
    ELSE Basename(UrlPath(url))

\* archive_path.endswith(...)
EndsWith(name, suffixes) == name # <<>> /\ name[Len(name)] \in suffixes

\* what tar.add(source_dir, arcname="supertonic") stores for these files
Packed(files) == [i \in 1..Len(files) |-> <<<<"supertonic">>>> \o files[i]]

\* The release URLs main may be given: the built-in default, and two given
\* with --supertonic-release-url or SUPERSONIC_RELEASE_URL.
DefaultRelease ==
    <<"https:", "/", "/", "github.com", "/", "supertonic_core", ".tar.gz">>

ZipRelease ==
    <<"https:", "/", "/", "mirror", "/", "assets", ".zip", "?", "dl">>

UnsupportedRelease ==
    <<"https:", "/", "/", "mirror", "/", "assets", ".7z">>

NoRelease == <<>>

Releases == {DefaultRelease, ZipRelease, UnsupportedRelease}

\* The members, in archive order, of the archive behind a release URL: at
\* the default URL the archive create_archive packs, at the others the asset
\* tree itself.
ArchiveAt(url) ==
    IF url = DefaultRelease THEN Packed(ALL_FILES) ELSE ALL_FILES

\* SUPERTONIC_HF_BASE, or the built-in default when unset
DefaultHfBase == <<"https://huggingface.co/Supertone/supertonic/resolve/", "{revision}", "/">>

HfBases == {DefaultHfBase, <<"https://mirror/", "{name}">>}

\* main, lines 176-185: the template with '{revision}/' appended when missing
HfTemplate(base) ==
    IF \E i \in 1..Len(base) : base[i] = "{revision}"
    THEN base
    ELSE (IF base[Len(base)] = "/" THEN base ELSE Append(base, "/"))
             \o <<"{revision}", "/">>

\* hf_base.format(revision=...) raises for any other placeholder
FormatRaises(template) ==
    \E i \in 1..Len(template) : template[i] \in {"{name}", "{}"}

-----------------------------------------------------------------------------
(* Initial state: a tool is started on empty directories *)

FetchArgs ==
    [force : BOOLEAN, skip_release : BOOLEAN, style : StyleArgs,
     release_url : Releases, hf_base : HfBases, keep : {FALSE}]

BuildArgs ==
    [force : BOOLEAN, skip_release : {FALSE}, style : {NoStyle},
     release_url : {NoRelease}, hf_base : {DefaultHfBase}, keep : BOOLEAN]

NoCall == [url |-> <<>>, dest |-> <<>>, force |-> FALSE, caller |-> "none"]

NoOutput == [state |-> "absent", members |-> {}]

Init ==
    /\ tool \in {"fetch", "build"}
    /\ args \in (IF tool = "fetch" THEN FetchArgs ELSE BuildArgs)
    /\ pc = "main"
    /\ strategy = <<>>
    /\ fs = EmptyFs
    /\ tmpExists = FALSE
    /\ dl = NoCall
    /\ idx = 0
    /\ requests = 0
    /\ log = <<>>
    /\ failed = <<>>
    /\ output = NoOutput
    /\ exit = Running
    /\ run = 1
    /\ faults = 0
    /\ prev = [exit |-> Running, fs |-> EmptyFs]

-----------------------------------------------------------------------------
(* fetch tool: download_per_file's three loops as one list of fetches *)

OnnxDir == Join(DEST, ONNX_DIRNAME)

StylesDir == Join(DEST, VOICE_STYLES_DIRNAME)

RequiredNames == REQUIRED_ONNX \o REQUIRED_JSON

RequiredTasks ==
    [i \in 1..Len(RequiredNames) |->
        [kind |-> "required",
         url  |-> <<ONNX_DIRNAME, RequiredNames[i]>>,
         dest |-> Join(OnnxDir, RequiredNames[i])]]

StyleTasks(style) ==
    LET requested == Requested(style)
    IN  [i \in 1..Len(requested) |->
            [kind |-> "style",
             url  |-> <<VOICE_STYLES_DIRNAME, StyleFile(requested[i])>>,
             dest |-> Join(StylesDir, StyleFile(requested[i]))]]

PerFileTasks(a) == RequiredTasks \o StyleTasks(a.style)

-----------------------------------------------------------------------------
(* fetch tool: main *)

\* main, lines 157-174: decide whether to try the release archive; on that
\* path try_download_release_and_extract makes its scratch directory and calls
\* download_url(url, filename, force=True)
main ==
    /\ tool = "fetch" /\ pc = "main"
    /\ IF args.release_url # <<>> /\ ~args.skip_release
       THEN /\ tmpExists' = TRUE
            /\ dl' = [url |-> args.release_url,
                      dest |-> Join(TMP, ArchiveName(args.release_url)),
                      force |-> TRUE, caller |-> "release"]
            /\ strategy' = <<"release">>
            /\ pc' = "download_url"
       ELSE /\ pc' = "hf_base"
            /\ UNCHANGED <<tmpExists, dl, strategy>>
    /\ UNCHANGED <<tool, args, fs, idx, requests, log, failed, output, exit,
                   run, faults, prev>>

\* The frame of the steps of download_url and of what follows its return.
FetchFrame == UNCHANGED <<tool, args, failed, output, run, prev>>

\* tmp/<archive name>, the file the release archive is downloaded to
ArchivePath == Join(TMP, ArchiveName(args.release_url))

LogEntry(res) == [dest |-> dl.dest, res |-> res]

\* ReleaseFailed without the finally clause: the scratch directory is removed
\* on the successful path only.
ReleaseFailed_NoFinally(f) ==
    /\ fs' = f
    /\ tmpExists' = tmpExists
    /\ pc' = "hf_base"
    /\ dl' = NoCall
    /\ UNCHANGED <<idx, exit>>

\* try_download_release_and_extract, lines 101-105: any exception is caught,
\* the scratch directory is removed and main falls through to the per-file
\* strategy
ReleaseFailed(f) ==
    /\ fs' = RmTree(f, TMP)
    /\ tmpExists' = FALSE
    /\ pc' = "hf_base"
    /\ dl' = NoCall
    /\ UNCHANGED <<idx, exit>>

\* Returned with the try/except of lines 139-142 missing: a failed voice-style
\* fetch leaves download_per_file like a failed required fetch.
Returned_StyleRaises(f, ok) ==
    IF dl.caller = "release"
    THEN IF ok
         THEN /\ fs' = f
              /\ pc' = "extract_archive"
              /\ dl' = NoCall
              /\ UNCHANGED <<tmpExists, idx, exit>>
         ELSE ReleaseFailed(f)
    ELSE /\ fs' = f
         /\ dl' = NoCall
         /\ IF ok
            THEN pc' = "download_per_file" /\ idx' = idx + 1 /\ exit' = exit
            ELSE pc' = "done" /\ exit' = <<3>> /\ idx' = idx
         /\ UNCHANGED tmpExists

\* download_url has returned (ok) or raised (~ok) with the file system f:
\* control goes back to its caller.
Returned(f, ok) ==
    CASE dl.caller = "release" ->
            IF ok
            THEN /\ fs' = f
                 /\ pc' = "extract_archive"
                 /\ dl' = NoCall
                 /\ UNCHANGED <<tmpExists, idx, exit>>
            ELSE ReleaseFailed(f)
      [] dl.caller = "required" ->
            \* lines 117-126: an exception leaves download_per_file and main
            \* returns 3 (lines 196-198)
            /\ fs' = f
            /\ dl' = NoCall
            /\ IF ok
               THEN pc' = "download_per_file" /\ idx' = idx + 1 /\ exit' = exit
               ELSE pc' = "done" /\ exit' = <<3>> /\ idx' = idx
            /\ UNCHANGED tmpExists
      [] dl.caller = "style" ->
            \* lines 139-142: the exception is printed and the loop goes on
            /\ fs' = f
            /\ dl' = NoCall
            /\ pc' = "download_per_file"
            /\ idx' = idx + 1
            /\ UNCHANGED <<tmpExists, exit>>

\* download_url, lines 52-55: an existing destination is kept unless forced
download_url ==
    /\ tool = "fetch" /\ pc = "download_url"
    /\ IF Exists(fs, dl.dest) /\ ~dl.force
       THEN /\ log' = Append(log, LogEntry("skip"))
            /\ Returned(fs, TRUE)
       ELSE /\ pc' = "urlopen"
            /\ UNCHANGED <<fs, tmpExists, dl, idx, exit, log>>
    /\ UNCHANGED <<requests, faults, strategy>>
    /\ FetchFrame

\* download_url, line 61: the request is made; a response opens the .part
\* file for writing. An HTTPError removes an existing .part file and is
\* raised again (lines 66-69); any other error (URLError) is not caught here.
urlopen ==
    /\ tool = "fetch" /\ pc = "urlopen"
    /\ requests' = requests + 1
    /\ \/ /\ fs' = FsWrite(fs, WithSuffix(dl.dest, ".part"), "partial")
          /\ pc' = "copyfileobj"
          /\ UNCHANGED <<tmpExists, dl, idx, exit, log, faults>>
       \/ /\ faults < MaxFaults
          /\ faults' = faults + 1
          /\ log' = Append(log, LogEntry("HTTPError"))
          /\ Returned(FsRemove(fs, WithSuffix(dl.dest, ".part")), FALSE)
       \/ /\ faults < MaxFaults
          /\ faults' = faults + 1
          /\ log' = Append(log, LogEntry("URLError"))
          /\ Returned(fs, FALSE)
    /\ UNCHANGED strategy
    /\ FetchFrame

\* What the per-file host and the release host serve.
Served(call) == IF call.caller = "release" THEN "arc" ELSE "hf"

\* download_url, line 62: the body is copied to the .part file; an error while
\* reading it is not an HTTPError, so the .part file stays
copyfileobj ==
    /\ tool = "fetch" /\ pc = "copyfileobj"
    /\ \/ /\ fs' = FsWrite(fs, WithSuffix(dl.dest, ".part"), Served(dl))
          /\ pc' = "replace"
          /\ UNCHANGED <<tmpExists, dl, idx, exit, log, faults>>
       \/ /\ faults < MaxFaults
          /\ faults' = faults + 1
          /\ log' = Append(log, LogEntry("ReadError"))
          /\ Returned(fs, FALSE)
    /\ UNCHANGED <<requests, strategy>>
    /\ FetchFrame

\* download_url, lines 63-65: the .part file is renamed to the destination
replace ==
    /\ tool = "fetch" /\ pc = "replace"
    /\ log' = Append(log, LogEntry("ok"))
    /\ Returned(FsReplace(fs, WithSuffix(dl.dest, ".part"), dl.dest), TRUE)
    /\ UNCHANGED <<requests, faults, strategy>>
    /\ FetchFrame

-----------------------------------------------------------------------------
(* fetch tool: extract_archive *)

\* The members extractall writes. For a .zip the loop of lines 76-84 only
\* creates the parent directories of the members it does not skip; line 85
\* then calls z.extractall(dest_dir) without a member list. For a tar archive
\* line 88 does the same.
ToExtract(members, f, force) == members

\* extract_archive, lines 74-90: dispatch on the extension of the archive
extract_archive ==
    /\ tool = "fetch" /\ pc = "extract_archive"
    /\ LET name == ArchiveName(args.release_url)
       IN  IF \/ EndsWith(name, {".zip"})
              \/ EndsWith(name, {".tar.gz", ".tgz", ".tar"})
           THEN /\ pc' = "extractall"
                /\ idx' = 1
                /\ UNCHANGED <<fs, tmpExists, dl, exit, log>>
           ELSE /\ log' = Append(log, [dest |-> ArchivePath, res |-> "RuntimeError"])
                /\ ReleaseFailed(fs)
    /\ UNCHANGED <<requests, faults, strategy>>
    /\ FetchFrame

\* extractall, next member: its target is opened for writing in the
\* destination itself; after the last member extract_archive returns,
\* try_download_release_and_extract removes the scratch directory and returns
\* True, and main returns 0 (lines 100, 105, 169-171)
extractall ==
    /\ tool = "fetch" /\ pc = "extractall"
    /\ LET members == ToExtract(ArchiveAt(args.release_url), fs, args.force)
       IN  IF idx > Len(members)
           THEN /\ fs' = RmTree(fs, TMP)
                /\ tmpExists' = FALSE
                /\ pc' = "done"
                /\ exit' = <<0>>
           ELSE /\ fs' = FsWrite(fs, JoinAll(DEST, members[idx]), "partial")
                /\ pc' = "extract_member"
                /\ UNCHANGED <<tmpExists, exit>>
    /\ UNCHANGED <<dl, idx, requests, log, faults, strategy>>
    /\ FetchFrame

\* extractall, the member's body is written: completely, or an error
\* (a damaged archive, a full disk) ends the extraction where it is
extract_member ==
    /\ tool = "fetch" /\ pc = "extract_member"
    /\ LET members == ToExtract(ArchiveAt(args.release_url), fs, args.force)
       IN  \/ /\ fs' = FsWrite(fs, JoinAll(DEST, members[idx]), "arc")
              /\ pc' = "extractall"
              /\ idx' = idx + 1
              /\ UNCHANGED <<tmpExists, dl, exit, faults, log>>
           \/ /\ faults < MaxFaults
              /\ faults' = faults + 1
              /\ log' = Append(log, [dest |-> ArchivePath, res |-> "ExtractError"])
              /\ ReleaseFailed(fs)
    /\ UNCHANGED <<requests, strategy>>
    /\ FetchFrame

-----------------------------------------------------------------------------
(* fetch tool: the per-file strategy *)

\* main, lines 175-192: the base URL template is built and tried
hf_base ==
    /\ tool = "fetch" /\ pc = "hf_base"
    /\ IF FormatRaises(HfTemplate(args.hf_base))
       THEN pc' = "done" /\ exit' = <<2>> /\ idx' = idx /\ strategy' = strategy
       ELSE /\ pc' = "download_per_file" /\ idx' = 1 /\ exit' = exit
            /\ strategy' = Append(strategy, "per_file")
    /\ UNCHANGED <<fs, tmpExists, dl, requests, log, faults>>
    /\ FetchFrame

\* download_per_file, lines 117-144: the next fetch of the three loops, or
\* the end of the last loop, after which main returns 0 (lines 200-201)
download_per_file ==
    /\ tool = "fetch" /\ pc = "download_per_file"
    /\ LET tasks == PerFileTasks(args)
       IN  IF idx > Len(tasks)
           THEN pc' = "done" /\ exit' = <<0>> /\ dl' = dl
           ELSE /\ dl' = [url |-> tasks[idx].url, dest |-> tasks[idx].dest,
                          force |-> args.force, caller |-> tasks[idx].kind]
                /\ pc' = "download_url"
                /\ exit' = exit
    /\ UNCHANGED <<fs, tmpExists, idx, requests, log, faults, strategy>>
    /\ FetchFrame

-----------------------------------------------------------------------------
(* build tool *)

\* os.path.join(work_dir, "supertonic")
SupertonicDir == Join(WORK, <<"supertonic">>)

BuildFrame == UNCHANGED <<tool, args, strategy, tmpExists, run, prev>>

\* main, lines 127-142: the work directory is made and the loop starts
build_main ==
    /\ tool = "build" /\ pc = "main"
    /\ pc' = "build_loop"
    /\ idx' = 1
    /\ failed' = <<>>
    /\ UNCHANGED <<fs, dl, requests, log, output, exit, faults>>
    /\ BuildFrame

\* main, lines 143-155: the next manifest file is fetched; after the last
\* one main returns 1 if any fetch returned False
build_loop ==
    /\ tool = "build" /\ pc = "build_loop"
    /\ IF idx <= Len(ALL_FILES)
       THEN /\ dl' = [url |-> ALL_FILES[idx],
                      dest |-> JoinAll(SupertonicDir, ALL_FILES[idx]),
                      force |-> args.force, caller |-> "build"]
            /\ pc' = "download_file"
            /\ exit' = exit
       ELSE /\ dl' = NoCall
            /\ IF failed # <<>>
               THEN pc' = "done" /\ exit' = <<1>>
               ELSE pc' = "create_archive" /\ exit' = exit
    /\ UNCHANGED <<fs, idx, requests, log, failed, output, faults>>
    /\ BuildFrame

\* download_file has returned ok to the loop of main (lines 146-147)
FileReturned(ok) ==
    /\ pc' = "build_loop"
    /\ idx' = idx + 1
    /\ failed' = IF ok THEN failed ELSE Append(failed, dl.url)
    /\ exit' = exit

\* An exception that download_file does not catch leaves main as well: the
\* interpreter prints the traceback and exits with status 1.
Uncaught ==
    /\ pc' = "done"
    /\ exit' = <<1>>
    /\ UNCHANGED <<idx, failed>>

\* download_file, lines 64-68: an existing destination is kept unless forced
download_file ==
    /\ tool = "build" /\ pc = "download_file"
    /\ IF Exists(fs, dl.dest) /\ ~dl.force
       THEN /\ log' = Append(log, LogEntry("skip"))
            /\ FileReturned(TRUE)
       ELSE /\ pc' = "build_urlopen"
            /\ UNCHANGED <<idx, failed, exit, log>>
    /\ UNCHANGED <<fs, dl, requests, output, faults>>
    /\ BuildFrame

\* download_file, lines 72-77: the request is made; a response opens the
\* .tmp file for writing. An HTTPError removes an existing .tmp file and
\* False is returned (lines 92-96); any other error is not caught.
build_urlopen ==
    /\ tool = "build" /\ pc = "build_urlopen"
    /\ requests' = requests + 1
    /\ \/ /\ fs' = FsWrite(fs, WithSuffix(dl.dest, ".tmp"), "partial")
          /\ pc' = "build_read"
          /\ UNCHANGED <<idx, failed, exit, log, faults>>
       \/ /\ faults < MaxFaults
          /\ faults' = faults + 1
          /\ log' = Append(log, LogEntry("HTTPError"))
          /\ fs' = FsRemove(fs, WithSuffix(dl.dest, ".tmp"))
          /\ FileReturned(FALSE)
       \/ /\ faults < MaxFaults
          /\ faults' = faults + 1
          /\ log' = Append(log, LogEntry("URLError"))
          /\ fs' = fs
          /\ Uncaught
    /\ UNCHANGED <<dl, output>>
    /\ BuildFrame

\* download_file, lines 78-86: the chunks are read and written until the
\* body ends; an error while reading is not an HTTPError, so it is not caught
\* and the .tmp file stays
build_read ==
    /\ tool = "build" /\ pc = "build_read"
    /\ \/ /\ fs' = FsWrite(fs, WithSuffix(dl.dest, ".tmp"), "hf")
          /\ pc' = "build_replace"
          /\ UNCHANGED <<idx, failed, exit, log, faults>>
       \/ /\ faults < MaxFaults
          /\ faults' = faults + 1
          /\ log' = Append(log, LogEntry("ReadError"))
          /\ fs' = fs
          /\ Uncaught
    /\ UNCHANGED <<dl, requests, output>>
    /\ BuildFrame

\* download_file, lines 88-90: the .tmp file is renamed to the destination
build_replace ==
    /\ tool = "build" /\ pc = "build_replace"
    /\ fs' = FsReplace(fs, WithSuffix(dl.dest, ".tmp"), dl.dest)
    /\ log' = Append(log, LogEntry("ok"))
    /\ FileReturned(TRUE)
    /\ UNCHANGED <<dl, requests, output, faults>>
    /\ BuildFrame

\* tar.add(source_dir, arcname="supertonic"): every file below source_dir,
\* under the name it has there
TarAdd(f, source_dir) ==
    { [name |-> <<<<"supertonic">>>> \o SubSeq(p, Len(source_dir) + 1, Len(p)),
       content |-> f[p]] : p \in {q \in DOMAIN f : IsUnder(q, source_dir)} }

\* create_archive, lines 99-112, and main, lines 158-159: the archive is
\* written, or the error is caught, False is returned and main returns 2
create_archive ==
    /\ tool = "build" /\ pc = "create_archive"
    /\ \/ /\ output' = [state |-> "complete", members |-> TarAdd(fs, SupertonicDir)]
          /\ pc' = "cleanup"
          /\ UNCHANGED <<exit, faults>>
       \/ /\ faults < MaxFaults
          /\ faults' = faults + 1
          /\ output' = [state |-> "partial", members |-> {}]
          /\ pc' = "done"
          /\ exit' = <<2>>
    /\ UNCHANGED <<fs, dl, idx, requests, log, failed>>
    /\ BuildFrame

\* main, lines 161-174: the work directory is removed unless --keep
cleanup ==
    /\ tool = "build" /\ pc = "cleanup"
    /\ fs' = IF args.keep THEN fs ELSE RmTree(fs, WORK)
    /\ pc' = "done"
    /\ exit' = <<0>>
    /\ UNCHANGED <<dl, idx, requests, log, failed, output, faults>>
    /\ BuildFrame

-----------------------------------------------------------------------------
(* The tool is run again on the directories the last run left *)

Rerun ==
    /\ pc = "done"
    /\ run < MaxRuns
    /\ run' = run + 1
    /\ prev' = [exit |-> exit, fs |-> fs]
    /\ \E force \in BOOLEAN, flag \in BOOLEAN :
          args' = IF tool = "fetch"
                  THEN [args EXCEPT !.force = force, !.skip_release = flag]
                  ELSE [args EXCEPT !.force = force, !.keep = flag]
    /\ pc' = "main"
    /\ strategy' = <<>>
    /\ dl' = NoCall
    /\ idx' = 0
    /\ requests' = 0
    /\ log' = <<>>
    /\ failed' = <<>>
    /\ exit' = Running
    /\ UNCHANGED <<tool, fs, tmpExists, output, faults>>

FetchNext ==
    \/ main \/ download_url \/ urlopen \/ copyfileobj \/ replace
    \/ extract_archive \/ extractall \/ extract_member
    \/ hf_base \/ download_per_file
    \/ Rerun

BuildNext ==
    \/ build_main \/ build_loop \/ download_file \/ build_urlopen
    \/ build_read \/ build_replace \/ create_archive \/ cleanup
    \/ Rerun

Next == FetchNext \/ BuildNext

\* Either tool
Spec == Init /\ [][Next]_vars

FetchInit == Init /\ tool = "fetch"

BuildInit == Init /\ tool = "build"

\* The fetch tool alone
FetchSpec == FetchInit /\ [][FetchNext]_vars

\* The build tool alone
BuildSpec == BuildInit /\ [][BuildNext]_vars

-----------------------------------------------------------------------------
(* Vocabulary of the properties *)

Last(sq) == sq[Len(sq)]

FetchFailures == {"HTTPError", "URLError", "ReadError"}

Failures == FetchFailures \cup {"RuntimeError", "ExtractError"}

Succeeded == {"ok", "skip"}

\* a '<dest>.part' or '<dest>.tmp' sibling
IsTemp(p) == Last(Last(p)) \in {".part", ".tmp"}

TempOf(call) == WithSuffix(call.dest, IF tool = "fetch" THEN ".part" ELSE ".tmp")

DestFiles(f) == {p \in DOMAIN f : IsUnder(p, DEST)}

\* the files of f below DEST are in fs with the same content
Untouched(f) == \A p \in DestFiles(f) : Exists(fs, p) /\ fs[p] = f[p]

\* the calls of download_url that download_per_file made in this run
PerFileLog == SelectSeq(log, LAMBDA e : IsUnder(e.dest, DEST))

PerFileRan == strategy # <<>> /\ Last(strategy) = "per_file"

ReleaseFailedInRun ==
    \E i \in 1..Len(log) : log[i].dest = ArchivePath /\ log[i].res \in Failures

\* main is inside try_download_release_and_extract
InReleaseCall ==
    /\ strategy = <<"release">>
    /\ pc \in {"download_url", "urlopen", "copyfileobj", "replace",
               "extract_archive", "extractall", "extract_member"}

RequiredOk ==
    /\ Len(PerFileLog) >= Len(RequiredTasks)
    /\ \A i \in 1..Len(RequiredTasks) : PerFileLog[i].res \in Succeeded

IsZip == EndsWith(ArchiveName(args.release_url), {".zip"})

-----------------------------------------------------------------------------
(* The claims *)

\* C1: in every reachable state of either tool every final path (any path
\* that is not a .part/.tmp sibling) is absent or holds a complete file.
C1_FinalPathAbsentOrComplete ==
    \A p \in DOMAIN fs : ~IsTemp(p) => fs[p] # "partial"

\* C2: a fetch that fails with an HTTP, URL or read error ends with its
\* .part/.tmp file removed and its destination as it was, and no new request
\* for it is made.
C2_FailedFetchCleansUp ==
    [][(Len(log') = Len(log) + 1 /\ Last(log').res \in FetchFailures) =>
          /\ ~Exists(fs', TempOf(dl))
          /\ Exists(fs', dl.dest) <=> Exists(fs, dl.dest)
          /\ Exists(fs, dl.dest) => fs'[dl.dest] = fs[dl.dest]
          /\ pc' \notin {"urlopen", "build_urlopen"}]_vars

\* C3: a run of the fetch tool with force=false that follows a run that
\* exited 0 makes no request and leaves the files it found as they were.
C3_RerunMakesNoRequest ==
    (tool = "fetch" /\ run > 1 /\ prev.exit = <<0>> /\ ~args.force) =>
        (requests = 0 /\ Untouched(prev.fs))

\* C4: when the fetch tool exits 0 the six required files are at dest/onnx/
\* and every requested style file is at dest/voice_styles/.
C4_ExitZeroHasManifest ==
    (tool = "fetch" /\ Exited(0)) =>
        \A i \in 1..Len(PerFileTasks(args)) : Exists(fs, PerFileTasks(args)[i].dest)

\* C5: when the release strategy failed on an empty destination and no
\* required per-file fetch failed, main exits 0 and each of the six required
\* files is at dest/onnx/ as a complete file, whatever the release attempt
\* left there (the claim asks for more: the per-file content).
C5_FallbackHoldsRequiredFiles ==
    (/\ tool = "fetch" /\ pc = "done" /\ DestFiles(prev.fs) = {}
     /\ ReleaseFailedInRun /\ PerFileRan /\ RequiredOk) =>
        /\ exit = <<0>>
        /\ \A i \in 1..Len(RequiredTasks) :
              /\ Exists(fs, RequiredTasks[i].dest)
              /\ fs[RequiredTasks[i].dest] # "partial"

\* C6: after a run of the fetch tool on an empty destination that exits 0,
\* the files under dest/voice_styles/ are exactly the requested style files
\* (the ten default ones when --style is absent), and so are the style files
\* fetched.
C6_ExactlyRequestedStyles ==
    (tool = "fetch" /\ Exited(0) /\ DestFiles(prev.fs) = {}) =>
        LET wanted == {StyleTasks(args.style)[i].dest :
                          i \in 1..Len(StyleTasks(args.style))}
        IN  /\ {p \in DOMAIN fs : IsUnder(p, StylesDir)} = wanted
            /\ {log[i].dest : i \in {j \in 1..Len(log) :
                     IsUnder(log[j].dest, StylesDir) /\ log[j].res = "ok"}} = wanted

\* C7: once download_per_file was called, main exits 0 exactly when every
\* required fetch returned; then every requested style was attempted in
\* order, failed or not; otherwise main exits 3, the failed required fetch is
\* the last call made and every call before it returned.
C7_PerFileExitCode ==
    (tool = "fetch" /\ pc = "done" /\ PerFileRan) =>
        LET tasks == PerFileTasks(args)
            calls == PerFileLog
        IN  /\ exit \in {<<0>>, <<3>>}
            /\ exit = <<0>> <=> RequiredOk
            /\ Len(calls) <= Len(tasks)
            /\ \A i \in 1..Len(calls) : calls[i].dest = tasks[i].dest
            /\ exit = <<0>> => Len(calls) = Len(tasks)
            /\ exit = <<3>> =>
                  /\ Len(calls) \in 1..Len(RequiredTasks)
                  /\ Last(calls).res \in FetchFailures
                  /\ \A i \in 1..(Len(calls) - 1) : calls[i].res \in Succeeded

\* C7 witness: main exited 0 although a style fetch failed, and a later style
\* was still fetched.
C7_Witness ==
    /\ tool = "fetch" /\ Exited(0) /\ PerFileRan
    /\ \E i \in 1..Len(PerFileLog) :
          /\ PerFileLog[i].res \in FetchFailures
          /\ i < Len(PerFileLog)
          /\ Last(PerFileLog).res = "ok"

\* C8: the scratch directory exists only while main is inside
\* try_download_release_and_extract; once the call has returned, and when
\* the run has ended, neither it nor any file below it exists.
C8_ScratchRemoved ==
    tool = "fetch" =>
        /\ tmpExists => InReleaseCall
        /\ ~InReleaseCall => \A p \in DOMAIN fs : ~IsUnder(p, TMP)

\* C8 witness: the call has returned after a failed extraction, with the
\* archive downloaded into the scratch directory before.
C8_Witness ==
    /\ tool = "fetch" /\ pc = "hf_base" /\ ~tmpExists
    /\ log # <<>> /\ Last(log).res = "ExtractError"

\* C9: while a .zip release is unpacked with force=false, every file the
\* destination held before is still there with the content it had.
C9_ZipSkipsExisting ==
    (tool = "fetch" /\ strategy = <<"release">> /\ IsZip /\ ~args.force) =>
        Untouched(prev.fs)

\* C10: the build tool reaches create_archive only with all 16 manifest files
\* in the work directory; when it exits 1 every manifest file was attempted;
\* exit 0 means the archive holds the 16 files, complete; exit 2 means the
\* archive creation failed.
C10_ArchiveFromCompleteSet ==
    tool = "build" =>
        /\ pc \in {"create_archive", "cleanup"} =>
              \A i \in 1..Len(ALL_FILES) :
                  /\ Exists(fs, JoinAll(SupertonicDir, ALL_FILES[i]))
                  /\ fs[JoinAll(SupertonicDir, ALL_FILES[i])] # "partial"
        /\ Exited(1) => Len(log) = Len(ALL_FILES) /\ failed # <<>>
        /\ Exited(0) =>
              /\ output.state = "complete"
              /\ \A i \in 1..Len(ALL_FILES) :
                    \E m \in output.members :
                        m.name = Packed(ALL_FILES)[i] /\ m.content # "partial"
        /\ Exited(2) => output.state = "partial"

====
